---- MODULE Spec2Model ----
(***************************************************************************)
(* Model of team_libraries/robot1/ipc.py: IPCClient and IPCServer, the     *)
(* inter-robot messaging layer over multiprocessing.connection.            *)
(*                                                                         *)
(* Every Python thread is a process of the model and every access to a    *)
(* shared attribute (self.status, self.client, self.clients, ...) is a     *)
(* step of its own, so that the interleavings of the foreground caller     *)
(* with the dial, accept and receive threads are the ones the interpreter  *)
(* can produce.                                                            *)
(***************************************************************************)
EXTENDS Integers, Sequences, FiniteSets, TLC

(***************************************************************************)
(* Program constants and model bounds                                      *)
(***************************************************************************)
\* launch(): Thread(target=self.__accept, args=(2,))
NumClients == 2
\* __listen(): for i in range(6)
NumPings == 6
\* connect() calls made on one client (each starts one dial thread)
MaxConnects == 2
\* disconnect() calls made on one client
MaxDisconnects == 1
\* foreground transmit() calls made on one endpoint
MaxTransmits == 1
\* messages the environment (the peers of the endpoint under study) sends
MaxEnvMsgs == 1
\* messages the peers send in the verification scenario
MaxAcks == 2
\* application messages the server sends to one client in the ordering
\* scenario
MaxNotes == 2
\* Listener(("localhost", self.port), "AF_INET", 8)
Backlog == 8

Clients == 1..NumClients
Handles == 1..MaxConnects
\* a connection object: <<c, k>> is made by the k-th dial of IPCClient c, and
\* <<c, 0>> by a peer process c that is taken as the server's environment
Conns == Clients \X (0..MaxConnects)
NoConn == <<0, 0>>
\* agent identities handed to the constructors
ServerId == 1
AgentId(c) == c + 1

Ping(id) == [message |-> "ping", my_id |-> id]
Pong(id) == [message |-> "pong", my_id |-> id]
Switch == [message |-> "switch", new_role |-> "defender"]
\* an application message whose payload names the connection it is sent on
\* and its place among the messages sent
Note(x, n) == [message |-> "note", conn |-> x, seq |-> n]
\* a record without the reserved key: msg["message"] raises KeyError
NoKind == [text |-> "raw"]
NoMsg == [none |-> TRUE]
\* what the server sends: its probe, and what the foreground broadcasts
Broadcasts == {Ping(ServerId), Switch}

VARIABLES
    \* ---- IPCClient, one instance per element of Clients
    status,       \* self.status
    client,       \* self.client: 0 is None, h > 0 is connection <<c, h>>
    fgPc,         \* where the foreground caller is inside connect()/disconnect()
    nConnect,     \* dial threads started so far
    nDisconnect,  \* disconnect() calls made so far
    nTransmit,    \* foreground transmit() calls made so far (index 0: the server)
    dialPc,       \* pc of each __connect_async thread
    recvPc,       \* pc of each __listen_async thread
    recvH,        \* the connection a receive thread is blocked on
    recvMsg,      \* the message a receive thread is processing
    delivered,    \* messages handed to the client's event_handler, in order
    stale,        \* receive threads that were alive when disconnect() was
                  \* called on the connected client
    staleRecvs,   \* receive attempts such a thread began since then
    \* ---- the transport
    clientEnd,    \* client end of each connection: none, open, closed (the
                  \* peer reads end of stream) or reset (closed with unread
                  \* data: the peer reads a connection reset)
    serverEnd,    \* server end of each connection: none, open or closed
    toClient,     \* bytes in flight to the client, as a queue of messages
    toServer,     \* bytes in flight to the server
    nEnv,         \* messages the environment injected so far
    nLost,        \* messages the transport dropped per connection
    peerGot,      \* what each live peer process outside the model has read
    \* ---- IPCServer
    listener,     \* self.listener: unset/open/closed
    backlog,      \* dialled connections not yet accepted
    clients,      \* self.clients
    verified_client_ids, \* self.verified_client_ids
    acceptPc,     \* pc of the __accept thread
    acceptI,      \* its loop variable i
    listenPc,     \* pc of the __listen thread
    pingRound,    \* its loop variable i of the probe loop
    waitSet,      \* the connections wait(self.clients) was called with
    readyList,    \* what wait(self.clients) returned, still to be served
    curConn,      \* conn of the receive loop
    curMsg,       \* msg of the receive loop
    tx,           \* the frames of transmit(): one for each calling thread
    handled,      \* messages handed to the server's event_handler, in order,
                  \* for each connection they came from
    \* ---- what the callers observe
    raised        \* public operations that raised to their caller

clientVars == <<status, client, fgPc, nConnect, nDisconnect, dialPc, recvPc,
                recvH, recvMsg, delivered, stale, staleRecvs>>
netVars == <<clientEnd, serverEnd, toClient, toServer, nEnv, nLost, peerGot>>
serverVars == <<listener, backlog, clients, verified_client_ids, acceptPc,
                acceptI, listenPc, pingRound, waitSet, readyList, curConn, curMsg,
                tx, handled>>
vars == <<clientVars, netVars, serverVars, nTransmit, raised>>

(***************************************************************************)
(* Helpers                                                                 *)
(***************************************************************************)
Range(s) == {s[i] : i \in 1..Len(s)}
NoDup(s) == \A i, j \in 1..Len(s) : s[i] = s[j] => i = j
\* list.remove(x): drops the first element equal to x
RemoveFirst(s, x) ==
    LET i == CHOOSE k \in 1..Len(s) : s[k] = x /\ \A j \in 1..(k-1) : s[j] # x
    IN SubSeq(s, 1, i-1) \o SubSeq(s, i+1, Len(s))


(***************************************************************************)
(* State after construction: IPCClient.__init__ and IPCServer.__init__     *)
(***************************************************************************)
\* A frame of IPCServer.transmit: the iterator's index i, the loop variable
\* cur (client) and the message. For the record: first is self.clients when
\* the call began, tried the connections a send was attempted on, failed
\* those whose send raised, alone whether no other thread changed
\* self.clients during the call.
NoFrame == [active |-> FALSE, pc |-> "idle", i |-> 0, cur |-> NoConn,
            msg |-> NoMsg, first |-> <<>>, tried |-> <<>>, failed |-> {},
            alone |-> TRUE]
\* another thread changes self.clients under the calls in progress
Disturbed(frames, others) ==
    [t \in DOMAIN frames |->
        IF t \in others /\ frames[t].pc # "idle"
        THEN [frames[t] EXCEPT !.alone = FALSE] ELSE frames[t]]

InitClient ==
    /\ status = [c \in Clients |-> "DISCONNECTED"]
    /\ client = [c \in Clients |-> 0]
    /\ fgPc = [c \in Clients |-> "idle"]
    /\ nConnect = [c \in Clients |-> 0]
    /\ nDisconnect = [c \in Clients |-> 0]
    /\ dialPc = [c \in Clients |-> [k \in Handles |-> "none"]]
    /\ recvPc = [c \in Clients |-> [k \in Handles |-> "none"]]
    /\ recvH = [c \in Clients |-> [k \in Handles |-> 0]]
    /\ recvMsg = [c \in Clients |-> [k \in Handles |-> NoMsg]]
    /\ delivered = [c \in Clients |-> <<>>]
    /\ stale = [c \in Clients |-> {}]
    /\ staleRecvs = [c \in Clients |-> [k \in Handles |-> 0]]

InitNet ==
    /\ clientEnd = [x \in Conns |-> "none"]
    /\ serverEnd = [x \in Conns |-> "none"]
    /\ toClient = [x \in Conns |-> <<>>]
    /\ toServer = [x \in Conns |-> <<>>]
    /\ nEnv = 0
    /\ nLost = [x \in Conns |-> 0]
    /\ peerGot = [c \in Clients |-> [m \in Broadcasts |-> 0]]

InitServer ==
    /\ listener = "unset"
    /\ backlog = <<>>
    /\ clients = <<>>
    /\ verified_client_ids = <<>>
    /\ acceptPc = "none"
    /\ acceptI = 0
    /\ listenPc = "none"
    /\ pingRound = 0
    /\ waitSet = {}
    /\ readyList = <<>>
    /\ curConn = NoConn
    /\ curMsg = NoMsg
    /\ tx = [t \in {"listen", "fg"} |-> NoFrame]
    /\ handled = [x \in Conns |-> <<>>]

Init ==
    /\ InitClient
    /\ InitNet
    /\ InitServer
    /\ nTransmit = [e \in 0..NumClients |-> 0]
    /\ raised = {}

(***************************************************************************)
(* IPCClient                                                               *)
(***************************************************************************)
\* a send that goes through on a handle that is closed
ClientSendQAnyway(c, m) ==
    IF client[c] = 0 THEN toServer
    ELSE [toServer EXCEPT ![<<c, client[c]>>] = Append(@, m)]

\* self.client.send(message) inside IPCClient.transmit: the queue to the
\* server after the call. A missing handle, a closed handle and a dead peer
\* send nothing; the exception, if any, is caught in transmit.
ClientSendQ(c, m) ==
    LET h == client[c]
        x == <<c, h>>
    IN IF h = 0 THEN toServer
       ELSE IF clientEnd[x] # "open" \/ serverEnd[x] # "open" THEN toServer
       ELSE [toServer EXCEPT ![x] = Append(@, m)]

\* a test that rejects connect() on a connected client only
MayConnectUnlessConnected(s) == s # "CONNECTED"

\* connect(), line 89: the call goes on unless
\* self.status != IPCStatus.DISCONNECTED
MayConnect(s) == s = "DISCONNECTED"

\* connect(), line 89: the status test
ConnectCheck(c) ==
    /\ fgPc[c] = "idle"
    /\ nConnect[c] < MaxConnects
    /\ MayConnect(status[c])
    /\ fgPc' = [fgPc EXCEPT ![c] = "connect94"]
    /\ UNCHANGED <<status, client, nConnect, nDisconnect, dialPc, recvPc, recvH,
                   recvMsg, delivered, stale, staleRecvs, netVars, serverVars,
                   nTransmit, raised>>

\* connect(), lines 89-90: the status test fails and the error is logged
ConnectReject(c) ==
    /\ fgPc[c] = "idle"
    /\ ~MayConnect(status[c])
    /\ fgPc' = [fgPc EXCEPT ![c] = "connect90"]
    /\ UNCHANGED <<status, client, nConnect, nDisconnect, dialPc, recvPc, recvH,
                   recvMsg, delivered, stale, staleRecvs, netVars, serverVars,
                   nTransmit, raised>>

\* connect(), line 91: return
ConnectReturn(c) ==
    /\ fgPc[c] = "connect90"
    /\ fgPc' = [fgPc EXCEPT ![c] = "idle"]
    /\ UNCHANGED <<status, client, nConnect, nDisconnect, dialPc, recvPc, recvH,
                   recvMsg, delivered, stale, staleRecvs, netVars, serverVars,
                   nTransmit, raised>>

\* connect(), lines 94-97: set CONNECTING and start the dial thread
ConnectStart(c) ==
    /\ fgPc[c] = "connect94"
    /\ status' = [status EXCEPT ![c] = "CONNECTING"]
    /\ nConnect' = [nConnect EXCEPT ![c] = @ + 1]
    /\ dialPc' = [dialPc EXCEPT ![c][nConnect[c] + 1] = "dial"]
    /\ fgPc' = [fgPc EXCEPT ![c] = "idle"]
    /\ UNCHANGED <<client, nDisconnect, recvPc, recvH, recvMsg, delivered,
                   stale, staleRecvs, netVars, serverVars, nTransmit, raised>>

\* the port takes connections: the listening socket is open, or a close
\* was called on it under an accept() call that is still blocked in the
\* kernel (listener = "closing"), which keeps the socket alive until that
\* call returns
Listening == listener \in {"open", "closing"}

\* __connect_async, line 49: Client(...) returns a connection
DialOk(c, k) ==
    /\ dialPc[c][k] = "dial"
    /\ Listening
    /\ Len(backlog) < Backlog
    /\ client' = [client EXCEPT ![c] = k]
    /\ clientEnd' = [clientEnd EXCEPT ![<<c, k>>] = "open"]
    /\ serverEnd' = [serverEnd EXCEPT ![<<c, k>>] = "open"]
    /\ backlog' = Append(backlog, <<c, k>>)
    /\ dialPc' = [dialPc EXCEPT ![c][k] = "start_recv"]
    /\ UNCHANGED <<status, fgPc, nConnect, nDisconnect, recvPc, recvH, recvMsg,
                   delivered, stale, staleRecvs, toClient, toServer, nEnv, nLost, peerGot,
                   listener, clients, verified_client_ids, acceptPc, acceptI,
                   listenPc, pingRound, waitSet, readyList, curConn, curMsg, tx,
                   handled, nTransmit, raised>>

\* a dial thread that records its failure in the status
DialFailSetsFailed(c, k) ==
    /\ dialPc[c][k] = "dial"
    /\ ~Listening
    /\ dialPc' = [dialPc EXCEPT ![c][k] = "failed"]
    /\ status' = [status EXCEPT ![c] = "FAILED"]
    /\ UNCHANGED <<client, fgPc, nConnect, nDisconnect, recvPc, recvH,
                   recvMsg, delivered, stale, staleRecvs, netVars, serverVars,
                   nTransmit, raised>>

\* __connect_async, lines 49, 57-58: Client(...) raises, the error is logged
DialFail(c, k) ==
    /\ dialPc[c][k] = "dial"
    /\ ~Listening
    /\ dialPc' = [dialPc EXCEPT ![c][k] = "failed"]
    /\ UNCHANGED <<status, client, fgPc, nConnect, nDisconnect, recvPc, recvH,
                   recvMsg, delivered, stale, staleRecvs, netVars, serverVars,
                   nTransmit, raised>>

\* __connect_async, lines 53-55: start the receive thread
StartRecv(c, k) ==
    /\ dialPc[c][k] = "start_recv"
    /\ dialPc' = [dialPc EXCEPT ![c][k] = "set_status"]
    /\ recvPc' = [recvPc EXCEPT ![c][k] = "check"]
    /\ UNCHANGED <<status, client, fgPc, nConnect, nDisconnect, recvH, recvMsg,
                   delivered, stale, staleRecvs, netVars, serverVars, nTransmit,
                   raised>>

\* __connect_async, line 56: self.status = IPCStatus.CONNECTED
SetConnected(c, k) ==
    /\ dialPc[c][k] = "set_status"
    /\ dialPc' = [dialPc EXCEPT ![c][k] = "done"]
    /\ status' = [status EXCEPT ![c] = "CONNECTED"]
    /\ UNCHANGED <<client, fgPc, nConnect, nDisconnect, recvPc, recvH, recvMsg,
                   delivered, stale, staleRecvs, netVars, serverVars, nTransmit,
                   raised>>

\* __listen_async, line 71: while self.status == IPCStatus.CONNECTED
RecvCheck(c, k) ==
    /\ recvPc[c][k] = "check"
    /\ recvPc' = [recvPc EXCEPT ![c][k] =
                    IF status[c] = "CONNECTED" THEN "recv" ELSE "exited"]
    /\ UNCHANGED <<status, client, fgPc, nConnect, nDisconnect, dialPc, recvH,
                   recvMsg, delivered, stale, staleRecvs, netVars, serverVars,
                   nTransmit, raised>>

\* __listen_async, line 73: self.client.recv() is entered. A handle that is
\* already closed raises at once (caught at line 77); otherwise the thread
\* blocks in the read.
RecvCall(c, k) ==
    /\ recvPc[c][k] = "recv"
    /\ LET h == client[c]
       IN IF clientEnd[<<c, h>>] # "open"
          THEN /\ recvPc' = [recvPc EXCEPT ![c][k] = "check"]
               /\ UNCHANGED recvH
          ELSE /\ recvPc' = [recvPc EXCEPT ![c][k] = "blocked"]
               /\ recvH' = [recvH EXCEPT ![c][k] = h]
    /\ staleRecvs' = [staleRecvs EXCEPT ![c][k] =
                        IF k \in stale[c] /\ @ < 2 THEN @ + 1 ELSE @]
    /\ UNCHANGED <<status, client, fgPc, nConnect, nDisconnect, dialPc, recvMsg,
                   delivered, stale, netVars, serverVars, nTransmit, raised>>

\* __listen_async, line 73: recv() returns a message
RecvMsg(c, k) ==
    /\ recvPc[c][k] = "blocked"
    /\ LET x == <<c, recvH[c][k]>>
       IN /\ clientEnd[x] = "open"
          /\ toClient[x] # <<>>
          /\ recvMsg' = [recvMsg EXCEPT ![c][k] = Head(toClient[x])]
          /\ toClient' = [toClient EXCEPT ![x] = Tail(@)]
    /\ recvPc' = [recvPc EXCEPT ![c][k] = "verify"]
    /\ UNCHANGED <<status, client, fgPc, nConnect, nDisconnect, dialPc, recvH,
                   delivered, stale, staleRecvs, clientEnd, serverEnd, toServer,
                   nEnv, nLost, peerGot, serverVars, nTransmit, raised>>

\* __listen_async, lines 73, 77-78: recv() raises (end of stream once the
\* server end is gone, or an OSError on a handle that disconnect() closed
\* under the blocked read); the error is logged and the loop goes on
RecvRaise(c, k) ==
    /\ recvPc[c][k] = "blocked"
    /\ LET x == <<c, recvH[c][k]>>
       IN \/ clientEnd[x] # "open"
          \/ toClient[x] = <<>> /\ serverEnd[x] # "open"
    /\ recvPc' = [recvPc EXCEPT ![c][k] = "check"]
    /\ UNCHANGED <<status, client, fgPc, nConnect, nDisconnect, dialPc, recvH,
                   recvMsg, delivered, stale, staleRecvs, netVars, serverVars,
                   nTransmit, raised>>

\* a responder that answers acknowledgments instead of probes
IsProbeWrongKind(m) == m.message = "pong"

\* IPCClient.__handle_verification, line 62: msg["message"] == "ping"
IsProbe(m) == m.message = "ping"

\* IPCClient.__handle_verification, lines 61-65, called at line 75.
\* msg["message"] raises KeyError on a record without that key: line 77
\* catches it and the handler is not called for this message.
RecvVerify(c, k) ==
    /\ recvPc[c][k] = "verify"
    /\ LET m == recvMsg[c][k]
       IN IF "message" \notin DOMAIN m
          THEN /\ recvPc' = [recvPc EXCEPT ![c][k] = "check"]
               /\ UNCHANGED toServer
          ELSE /\ recvPc' = [recvPc EXCEPT ![c][k] = "handler"]
               /\ toServer' = IF IsProbe(m)
                               THEN ClientSendQ(c, Pong(AgentId(c)))
                               ELSE toServer
    /\ UNCHANGED <<status, client, fgPc, nConnect, nDisconnect, dialPc, recvH,
                   recvMsg, delivered, stale, staleRecvs, clientEnd, serverEnd,
                   toClient, nEnv, nLost, peerGot, serverVars, nTransmit, raised>>

\* __listen_async, line 76: self.event_handler(msg)
RecvHandler(c, k) ==
    /\ recvPc[c][k] = "handler"
    /\ delivered' = [delivered EXCEPT ![c] = Append(@, recvMsg[c][k])]
    /\ recvPc' = [recvPc EXCEPT ![c][k] = "check"]
    /\ UNCHANGED <<status, client, fgPc, nConnect, nDisconnect, dialPc, recvH,
                   recvMsg, stale, staleRecvs, netVars, serverVars, nTransmit,
                   raised>>

\* IPCClient.transmit, lines 80-86, called by the foreground
ClientTransmit(c, m) ==
    /\ fgPc[c] = "idle"
    /\ nTransmit[c] < MaxTransmits
    /\ nTransmit' = [nTransmit EXCEPT ![c] = @ + 1]
    /\ toServer' = ClientSendQ(c, m)
    /\ UNCHANGED <<clientVars, clientEnd, serverEnd, toClient, nEnv, nLost, peerGot,
                   serverVars, raised>>

\* disconnect(), line 100: self.status = IPCStatus.DISCONNECTED
DisconnectSet(c) ==
    /\ fgPc[c] = "idle"
    /\ nDisconnect[c] < MaxDisconnects
    /\ nDisconnect' = [nDisconnect EXCEPT ![c] = @ + 1]
    /\ status' = [status EXCEPT ![c] = "DISCONNECTED"]
    /\ fgPc' = [fgPc EXCEPT ![c] = "disconnect101"]
    /\ stale' = [stale EXCEPT ![c] =
                   IF status[c] # "CONNECTED" THEN @
                   ELSE @ \cup {k \in Handles :
                                  recvPc[c][k] \notin {"none", "exited"}}]
    /\ staleRecvs' = [staleRecvs EXCEPT ![c] = [k \in Handles |-> 0]]
    /\ UNCHANGED <<client, nConnect, dialPc, recvPc, recvH, recvMsg, delivered,
                   netVars, serverVars, nTransmit, raised>>

\* disconnect(), line 101: self.client.close(). With self.client still None
\* the attribute lookup raises AttributeError to the caller.
DisconnectClose(c) ==
    /\ fgPc[c] = "disconnect101"
    /\ fgPc' = [fgPc EXCEPT ![c] = "idle"]
    /\ IF client[c] = 0
       THEN /\ raised' = raised \cup {"disconnect"}
            /\ UNCHANGED clientEnd
       ELSE /\ clientEnd' = [clientEnd EXCEPT ![<<c, client[c]>>] =
                              IF @ # "open" THEN @
                              ELSE IF toClient[<<c, client[c]>>] = <<>>
                                   THEN "closed" ELSE "reset"]
            /\ UNCHANGED raised
    /\ UNCHANGED <<status, client, nConnect, nDisconnect, dialPc, recvPc, recvH,
                   recvMsg, delivered, stale, staleRecvs, serverEnd, toClient,
                   toServer, nEnv, nLost, peerGot, serverVars, nTransmit>>

(***************************************************************************)
(* IPCServer                                                               *)
(***************************************************************************)
\* launch(), lines 164-167: open the listener and start the accept thread
Launch ==
    /\ listener = "unset"
    /\ listener' = "open"
    /\ acceptPc' = "accept"
    /\ UNCHANGED <<clientVars, netVars, backlog, clients, verified_client_ids,
                   acceptI, listenPc, pingRound, waitSet, readyList, curConn,
                   curMsg, tx, handled, nTransmit, raised>>

\* launch() while the port is still bound by the first listener: line 164
\* raises OSError (address in use) to the caller
LaunchAgain ==
    /\ listener = "open"
    /\ "launch" \notin raised
    /\ raised' = raised \cup {"launch"}
    /\ UNCHANGED <<clientVars, netVars, serverVars, nTransmit>>

\* terminate(), line 179: self.listener.close(). Before launch() the
\* attribute does not exist and the lookup raises AttributeError. Under an
\* accept thread that is blocked in accept() (line 122) the close either
\* makes that call fail or, where the kernel keeps the socket for the call
\* in progress (Linux), lets it return one more connection.
Terminate ==
    /\ listener \in {"unset", "open"}
    /\ IF listener = "unset"
       THEN /\ "terminate" \notin raised
            /\ raised' = raised \cup {"terminate"}
            /\ UNCHANGED listener
       ELSE /\ \/ listener' = "closed"
               \/ /\ acceptPc = "accept" /\ acceptI < NumClients
                  /\ listener' = "closing"
            /\ UNCHANGED raised
    /\ UNCHANGED <<clientVars, netVars, backlog, clients, verified_client_ids,
                   acceptPc, acceptI, listenPc, pingRound, waitSet, readyList,
                   curConn, curMsg, tx, handled, nTransmit>>

\* __accept, lines 120-124: one round of the accept loop
AcceptOne ==
    /\ acceptPc = "accept"
    /\ acceptI < NumClients
    /\ Listening
    /\ backlog # <<>>
    /\ clients' = Append(clients, Head(backlog))
    /\ backlog' = Tail(backlog)
    /\ acceptI' = acceptI + 1
    /\ listener' = IF listener = "closing" THEN "closed" ELSE listener
    /\ tx' = Disturbed(tx, {"fg", "listen"})
    /\ UNCHANGED <<clientVars, netVars, verified_client_ids, acceptPc,
                   listenPc, pingRound, waitSet, readyList, curConn, curMsg,
                   handled, nTransmit, raised>>

\* __accept, line 122 on a listener that terminate() closed: accept()
\* raises OSError, nothing catches it and the accept thread ends
AcceptRaise ==
    /\ acceptPc = "accept"
    /\ acceptI < NumClients
    /\ listener = "closed"
    /\ acceptPc' = "crashed_accept"
    /\ UNCHANGED <<clientVars, netVars, listener, backlog, clients,
                   verified_client_ids, acceptI, listenPc, pingRound, waitSet,
                   readyList, curConn, curMsg, tx, handled, nTransmit, raised>>

\* __accept, lines 126-129: the loop is over, start the receive thread
AcceptDone ==
    /\ acceptPc = "accept"
    /\ acceptI = NumClients
    /\ acceptPc' = "done"
    /\ listenPc' = "ping"
    /\ UNCHANGED <<clientVars, netVars, listener, backlog, clients,
                   verified_client_ids, acceptI, pingRound, waitSet, readyList,
                   curConn, curMsg, tx, handled, nTransmit, raised>>

\* IPCServer.transmit is entered (line 169) by thread t with message m
NewFrame(m) ==
    [active |-> TRUE, pc |-> "next", i |-> 0, cur |-> NoConn, msg |-> m,
     first |-> clients, tried |-> <<>>, failed |-> {}, alone |-> TRUE]

\* transmit(), line 170: the list iterator of "for client in self.clients"
\* reads self.clients[i] of the list as it is now, or ends the loop
TxIter(f) ==
    IF f.i < Len(clients)
    THEN [f EXCEPT !.cur = clients[f.i + 1], !.i = f.i + 1, !.pc = "send"]
    ELSE [f EXCEPT !.active = FALSE, !.pc = "returned", !.cur = NoConn]

\* transmit(), line 170, in the foreground's frame
TxNextFg ==
    /\ tx["fg"].pc = "next"
    /\ tx' = [tx EXCEPT !["fg"] = TxIter(@)]
    /\ UNCHANGED <<clientVars, netVars, listener, backlog, clients,
                   verified_client_ids, acceptPc, acceptI, listenPc, pingRound,
                   waitSet, readyList, curConn, curMsg, handled, nTransmit,
                   raised>>

\* transmit(), line 170, in the receive thread's frame; when the loop ends
\* the probe loop of __listen (lines 147-149) goes to its next round
TxNextListen ==
    /\ tx["listen"].pc = "next"
    /\ tx' = [tx EXCEPT !["listen"] = TxIter(@)]
    /\ IF tx["listen"].i < Len(clients)
       THEN UNCHANGED <<listenPc, pingRound>>
       ELSE /\ listenPc' = "ping"
            /\ pingRound' = pingRound + 1
    /\ UNCHANGED <<clientVars, netVars, listener, backlog, clients,
                   verified_client_ids, acceptPc, acceptI, waitSet, readyList,
                   curConn, curMsg, handled, nTransmit, raised>>

\* transmit(), line 173: client.send(message) succeeds. To a peer that is
\* gone the bytes are accepted by the kernel and never read; a peer process
\* of the environment reads what it is sent at once.
TxSendOk(t) ==
    /\ tx[t].pc = "send"
    /\ LET x == tx[t].cur
       IN /\ toClient' = IF clientEnd[x] = "open" /\ x[2] # 0
                         THEN [toClient EXCEPT ![x] = Append(@, tx[t].msg)]
                         ELSE toClient
          /\ peerGot' = IF clientEnd[x] = "open" /\ x[2] = 0
                        THEN [peerGot EXCEPT ![x[1]][tx[t].msg] = @ + 1]
                        ELSE peerGot
    /\ tx' = [tx EXCEPT ![t].pc = "next", ![t].tried = Append(@, tx[t].cur)]
    /\ UNCHANGED <<clientVars, clientEnd, serverEnd, toServer, nEnv, nLost,
                   listener, backlog, clients, verified_client_ids, acceptPc,
                   acceptI, listenPc, pingRound, waitSet, readyList, curConn,
                   curMsg, handled, nTransmit, raised>>

\* transmit(), lines 173-175: client.send(message) raises (broken pipe,
\* connection reset) because the peer closed its end
TxSendRaise(t) ==
    /\ tx[t].pc = "send"
    /\ clientEnd[tx[t].cur] # "open"
    /\ tx' = [tx EXCEPT ![t].pc = "remove", ![t].tried = Append(@, tx[t].cur),
                        ![t].failed = @ \cup {tx[t].cur}]
    /\ UNCHANGED <<clientVars, netVars, listener, backlog, clients,
                   verified_client_ids, acceptPc, acceptI, listenPc, pingRound,
                   waitSet, readyList, curConn, curMsg, handled, nTransmit,
                   raised>>

\* transmit(), line 176: self.clients.remove(client). list.remove raises
\* ValueError when the element is no longer in the list; the call is inside
\* the except block, so the error leaves transmit(): to the caller in the
\* foreground, and out of __listen (ending the thread) in the receive thread.
TxRemove(t) ==
    /\ tx[t].pc = "remove"
    /\ IF tx[t].cur \in Range(clients)
       THEN /\ clients' = RemoveFirst(clients, tx[t].cur)
            /\ tx' = Disturbed([tx EXCEPT ![t].pc = "next"], {"fg", "listen"} \ {t})
            /\ UNCHANGED <<listenPc, raised>>
       ELSE /\ tx' = [tx EXCEPT ![t].pc = "raised", ![t].active = FALSE]
            /\ listenPc' = IF t = "listen" THEN "crashed_remove" ELSE listenPc
            /\ raised' = IF t = "fg" THEN raised \cup {"transmit"} ELSE raised
            /\ UNCHANGED clients
    /\ UNCHANGED <<clientVars, netVars, listener, backlog, verified_client_ids,
                   acceptPc, acceptI, pingRound, waitSet, readyList, curConn,
                   curMsg, handled, nTransmit>>

\* transmit() has returned to the foreground, or raised to it: its frame
\* is gone
TxReturnFg ==
    /\ tx["fg"].pc \in {"returned", "raised"}
    /\ tx' = [tx EXCEPT !["fg"] = NoFrame]
    /\ UNCHANGED <<clientVars, netVars, listener, backlog, clients,
                   verified_client_ids, acceptPc, acceptI, listenPc, pingRound,
                   waitSet, readyList, curConn, curMsg, handled, nTransmit,
                   raised>>

\* the foreground calls IPCServer.transmit(m)
ServerTransmit(m) ==
    /\ tx["fg"].pc = "idle"
    /\ nTransmit[0] < MaxTransmits
    /\ nTransmit' = [nTransmit EXCEPT ![0] = @ + 1]
    /\ tx' = [tx EXCEPT !["fg"] = NewFrame(m)]
    /\ UNCHANGED <<clientVars, netVars, listener, backlog, clients,
                   verified_client_ids, acceptPc, acceptI, listenPc, pingRound,
                   waitSet, readyList, curConn, curMsg, handled, raised>>

\* __listen, lines 147-148: one round of the probe loop calls transmit();
\* after the last round the thread goes to "while self.clients"
ListenPing ==
    /\ listenPc = "ping"
    /\ IF pingRound < NumPings
       THEN /\ tx' = [tx EXCEPT !["listen"] = NewFrame(Ping(ServerId))]
            /\ listenPc' = "pinging"
       ELSE /\ listenPc' = "while"
            /\ tx' = [tx EXCEPT !["listen"] = NoFrame]
    /\ UNCHANGED <<clientVars, netVars, listener, backlog, clients,
                   verified_client_ids, acceptPc, acceptI, pingRound, waitSet,
                   readyList, curConn, curMsg, handled, nTransmit, raised>>

\* __listen, lines 151-152: the loop test, then wait(self.clients) is
\* entered with the connections the list holds now
ListenWhile ==
    /\ listenPc = "while"
    /\ IF clients = <<>>
       THEN /\ listenPc' = "done"
            /\ UNCHANGED waitSet
       ELSE /\ listenPc' = "wait"
            /\ waitSet' = Range(clients)
    /\ UNCHANGED <<clientVars, netVars, listener, backlog, clients,
                   verified_client_ids, acceptPc, acceptI, pingRound, readyList,
                   curConn, curMsg, tx, handled, nTransmit, raised>>

\* a connection is readable: data is queued or the peer closed its end
Ready(x) == toServer[x] # <<>> \/ clientEnd[x] # "open"

\* the orders in which a set of at most NumClients connections can be listed
Orders(S) == {q \in UNION {[1..n -> S] : n \in 0..NumClients} :
                 Range(q) = S /\ Len(q) = Cardinality(S)}

\* __listen, line 152: wait() returns the connections that are readable, in
\* the order the selector reports them
ListenWait ==
    /\ listenPc = "wait"
    /\ LET R == {x \in waitSet : Ready(x)}
       IN /\ R # {}
          /\ \E q \in Orders(R) : readyList' = q
    /\ listenPc' = "serve"
    /\ UNCHANGED <<clientVars, netVars, listener, backlog, clients,
                   verified_client_ids, acceptPc, acceptI, pingRound, waitSet,
                   curConn, curMsg, tx, handled, nTransmit, raised>>

\* __listen, line 152: the for loop takes the next ready connection, or is
\* over and the while test comes next
ListenNext ==
    /\ listenPc = "serve"
    /\ IF readyList = <<>>
       THEN /\ listenPc' = "while"
            /\ curConn' = NoConn
            /\ UNCHANGED readyList
       ELSE /\ listenPc' = "recv"
            /\ curConn' = Head(readyList)
            /\ readyList' = Tail(readyList)
    /\ UNCHANGED <<clientVars, netVars, listener, backlog, clients,
                   verified_client_ids, acceptPc, acceptI, pingRound, waitSet,
                   curMsg, tx, handled, nTransmit, raised>>

\* __listen, line 154: conn.recv() returns a message
ListenRecvMsg ==
    /\ listenPc = "recv"
    /\ toServer[curConn] # <<>>
    /\ curMsg' = Head(toServer[curConn])
    /\ toServer' = [toServer EXCEPT ![curConn] = Tail(@)]
    /\ listenPc' = "verify"
    /\ UNCHANGED <<clientVars, clientEnd, serverEnd, toClient, nEnv, nLost, peerGot,
                   listener, backlog, clients, verified_client_ids, acceptPc,
                   acceptI, pingRound, waitSet, readyList, curConn, tx, handled,
                   nTransmit, raised>>

\* __listen, lines 154, 158-159: conn.recv() raises EOFError
ListenRecvEof ==
    /\ listenPc = "recv"
    /\ toServer[curConn] = <<>>
    /\ clientEnd[curConn] = "closed"
    /\ listenPc' = "eof_remove"
    /\ UNCHANGED <<clientVars, netVars, listener, backlog, clients,
                   verified_client_ids, acceptPc, acceptI, pingRound, waitSet,
                   readyList, curConn, curMsg, tx, handled, nTransmit, raised>>

\* __listen, line 154: conn.recv() raises ConnectionResetError. Only
\* EOFError is caught (line 158), so the error leaves __listen and the
\* receive thread ends.
ListenRecvError ==
    /\ listenPc = "recv"
    /\ toServer[curConn] = <<>>
    /\ clientEnd[curConn] = "reset"
    /\ listenPc' = "crashed_recv"
    /\ UNCHANGED <<clientVars, netVars, listener, backlog, clients,
                   verified_client_ids, acceptPc, acceptI, pingRound, waitSet,
                   readyList, curConn, curMsg, tx, handled, nTransmit, raised>>

\* a verification step that keeps the last acknowledged identity only
HandleVerificationOverwrite(ids, msg) ==
    IF msg.message = "pong" /\ msg.my_id \notin Range(ids)
    THEN <<msg.my_id>>
    ELSE ids

\* a verification step that records every acknowledgment
HandleVerificationAlways(ids, msg) ==
    IF msg.message = "pong" THEN Append(ids, msg.my_id) ELSE ids

\* IPCServer.__handle_verification, lines 132-137: the list of verified
\* identities after msg
HandleVerification(ids, msg) ==
    IF msg.message = "pong" /\ msg.my_id \notin Range(ids)
    THEN Append(ids, msg.my_id)
    ELSE ids

\* __listen, line 156: self.__handle_verification(msg). msg["message"] on a
\* record without that key raises KeyError, which nothing catches.
ListenVerify ==
    /\ listenPc = "verify"
    /\ IF "message" \in DOMAIN curMsg
       THEN /\ verified_client_ids' = HandleVerification(verified_client_ids, curMsg)
            /\ listenPc' = "handler"
       ELSE /\ listenPc' = "crashed_verify"
            /\ UNCHANGED verified_client_ids
    /\ UNCHANGED <<clientVars, netVars, listener, backlog, clients, acceptPc,
                   acceptI, pingRound, waitSet, readyList, curConn, curMsg, tx,
                   handled, nTransmit, raised>>

\* __listen, line 157: self.event_handler(msg) returns
ListenHandler ==
    /\ listenPc = "handler"
    /\ handled' = [handled EXCEPT ![curConn] = Append(@, curMsg)]
    /\ listenPc' = "serve"
    /\ UNCHANGED <<clientVars, netVars, listener, backlog, clients,
                   verified_client_ids, acceptPc, acceptI, pingRound, waitSet,
                   readyList, curConn, curMsg, tx, nTransmit, raised>>

\* __listen, line 157: self.event_handler(msg) raises; only EOFError is
\* caught, so the receive thread ends
ListenHandlerRaise ==
    /\ listenPc = "handler"
    /\ handled' = [handled EXCEPT ![curConn] = Append(@, curMsg)]
    /\ listenPc' = "crashed_handler"
    /\ UNCHANGED <<clientVars, netVars, listener, backlog, clients,
                   verified_client_ids, acceptPc, acceptI, pingRound, waitSet,
                   readyList, curConn, curMsg, tx, nTransmit, raised>>

\* __listen, line 160: self.clients.remove(conn) in the EOFError handler;
\* ValueError when transmit() removed the connection first
ListenEofRemove ==
    /\ listenPc = "eof_remove"
    /\ IF curConn \in Range(clients)
       THEN /\ clients' = RemoveFirst(clients, curConn)
            /\ tx' = Disturbed(tx, {"fg"})
            /\ listenPc' = "serve"
       ELSE /\ listenPc' = "crashed_eof_remove"
            /\ UNCHANGED <<clients, tx>>
    /\ UNCHANGED <<clientVars, netVars, listener, backlog, verified_client_ids,
                   acceptPc, acceptI, pingRound, waitSet, readyList, curConn,
                   curMsg, handled, nTransmit, raised>>

(***************************************************************************)
(* The peers of an endpoint taken alone                                    *)
(***************************************************************************)
\* a peer process dials the server: its connection waits in the backlog
PeerDial(c) ==
    /\ Listening
    /\ clientEnd[<<c, 0>>] = "none"
    /\ clientEnd' = [clientEnd EXCEPT ![<<c, 0>>] = "open"]
    /\ serverEnd' = [serverEnd EXCEPT ![<<c, 0>>] = "open"]
    /\ backlog' = Append(backlog, <<c, 0>>)
    /\ UNCHANGED <<clientVars, toClient, toServer, nEnv, nLost, peerGot, listener,
                   clients, verified_client_ids, acceptPc, acceptI, listenPc,
                   pingRound, waitSet, readyList, curConn, curMsg, tx, handled,
                   nTransmit, raised>>

\* messages a peer can send to the server
PeerMsgs(c) == {Pong(AgentId(c)), Switch, NoKind}

\* a peer sends m to the server, as one of at most n messages
PeerSendUpTo(c, m, n) ==
    /\ clientEnd[<<c, 0>>] = "open"
    /\ nEnv < n
    /\ nEnv' = nEnv + 1
    /\ toServer' = [toServer EXCEPT ![<<c, 0>>] = Append(@, m)]
    /\ UNCHANGED <<clientVars, clientEnd, serverEnd, toClient, nLost, peerGot,
                   serverVars, nTransmit, raised>>

\* a peer closes its end (end of stream at the server) or its process dies
\* (a connection reset at the server)
PeerClose(c, how) ==
    /\ clientEnd[<<c, 0>>] = "open"
    /\ clientEnd' = [clientEnd EXCEPT ![<<c, 0>>] = how]
    /\ peerGot' = [peerGot EXCEPT ![c] = [m \in Broadcasts |-> 0]]
    /\ UNCHANGED <<clientVars, serverEnd, toClient, toServer, nEnv, nLost,
                   serverVars, nTransmit, raised>>

PeerSend(c, m) == PeerSendUpTo(c, m, MaxEnvMsgs)

\* the server a client talks to sends m on connection x
ServerMsgs == {Ping(ServerId), Switch, NoKind}

ServerSends(x, m) ==
    /\ serverEnd[x] = "open"
    /\ clientEnd[x] = "open"
    /\ nEnv < MaxEnvMsgs
    /\ nEnv' = nEnv + 1
    /\ toClient' = [toClient EXCEPT ![x] = Append(@, m)]
    /\ UNCHANGED <<clientVars, clientEnd, serverEnd, toServer, nLost, peerGot,
                   serverVars, nTransmit, raised>>

\* the server a client talks to sends its next application message on x
ServerSendsNote(x) ==
    /\ serverEnd[x] = "open"
    /\ clientEnd[x] = "open"
    /\ nEnv < MaxNotes
    /\ nEnv' = nEnv + 1
    /\ toClient' = [toClient EXCEPT ![x] = Append(@, Note(x, nEnv + 1))]
    /\ UNCHANGED <<clientVars, clientEnd, serverEnd, toServer, nLost, peerGot,
                   serverVars, nTransmit, raised>>

\* the server process a client talks to exits: its end of x is closed
ServerExits(x) ==
    /\ serverEnd[x] = "open"
    /\ serverEnd' = [serverEnd EXCEPT ![x] = "closed"]
    /\ UNCHANGED <<clientVars, clientEnd, toClient, toServer, nEnv, nLost, peerGot,
                   serverVars, nTransmit, raised>>

(***************************************************************************)
(* Specifications                                                          *)
(***************************************************************************)
\* one client, its foreground caller and its threads, against any server
ClientThreads(c) ==
    \E k \in Handles :
        \/ DialOk(c, k)
        \/ DialFail(c, k)
        \/ StartRecv(c, k)
        \/ SetConnected(c, k)
        \/ RecvCheck(c, k)
        \/ RecvCall(c, k)
        \/ RecvMsg(c, k)
        \/ RecvRaise(c, k)
        \/ RecvVerify(c, k)
        \/ RecvHandler(c, k)

ClientCalls(c) ==
    \/ ConnectCheck(c)
    \/ ConnectStart(c)
    \/ DisconnectSet(c)
    \/ DisconnectClose(c)
    \/ \E m \in {Switch} : ClientTransmit(c, m)

NextClient ==
    \/ ClientCalls(1)
    \/ ClientThreads(1)
    \/ Launch
    \/ \E k \in Handles, m \in ServerMsgs : ServerSends(<<1, k>>, m)
    \/ \E k \in Handles : ServerExits(<<1, k>>)

SpecClient == Init /\ [][NextClient]_vars

\* one client whose caller calls connect() and disconnect() in any order,
\* connect() on a connecting or connected client included, against a
\* server that sends nothing
NextConnect ==
    \/ ConnectCheck(1)
    \/ ConnectStart(1)
    \/ ConnectReject(1)
    \/ ConnectReturn(1)
    \/ DisconnectSet(1)
    \/ DisconnectClose(1)
    \/ Launch
    \/ \E k \in Handles :
          \/ DialOk(1, k)
          \/ DialFail(1, k)
          \/ StartRecv(1, k)
          \/ SetConnected(1, k)
          \/ RecvCheck(1, k)
          \/ RecvCall(1, k)
          \/ RecvRaise(1, k)

SpecConnect == Init /\ [][NextConnect]_vars

\* one client that connects, disconnects and connects again while the
\* server sends it application messages
NextOrder ==
    \/ ConnectCheck(1)
    \/ ConnectStart(1)
    \/ DisconnectSet(1)
    \/ DisconnectClose(1)
    \/ ClientThreads(1)
    \/ Launch
    \/ \E k \in Handles : ServerSendsNote(<<1, k>>)

SpecOrder == Init /\ [][NextOrder]_vars

\* the server, its foreground caller and its threads, against any peers
ServerThreads ==
    \/ AcceptOne
    \/ AcceptDone
    \/ TxNextListen
    \/ \E t \in {"fg", "listen"} : TxSendOk(t) \/ TxSendRaise(t) \/ TxRemove(t)
    \/ ListenPing
    \/ ListenWhile
    \/ ListenWait
    \/ ListenNext
    \/ ListenRecvMsg
    \/ ListenRecvEof
    \/ ListenRecvError
    \/ ListenVerify
    \/ ListenHandler
    \/ ListenHandlerRaise
    \/ ListenEofRemove

ServerCalls ==
    \/ Launch
    \/ \E m \in {Switch} : ServerTransmit(m)
    \/ TxNextFg
    \/ TxReturnFg

NextServer ==
    \/ ServerCalls
    \/ ServerThreads
    \/ \E c \in Clients : PeerDial(c)
    \/ \E c \in Clients, how \in {"closed", "reset"} : PeerClose(c, how)
    \/ \E c \in Clients : \E m \in PeerMsgs(c) : PeerSend(c, m)

SpecServer == Init /\ [][NextServer]_vars

\* the server's listener and accept thread under launch() and terminate()
NextLaunch ==
    \/ Launch
    \/ LaunchAgain
    \/ Terminate
    \/ AcceptOne
    \/ AcceptRaise
    \/ AcceptDone
    \/ \E c \in Clients : PeerDial(c)
    \/ \E c \in Clients, how \in {"closed", "reset"} : PeerClose(c, how)
    \/ \E m \in {Switch} : ServerTransmit(m)
    \/ TxNextFg
    \/ TxReturnFg
    \/ TxSendOk("fg") \/ TxSendRaise("fg") \/ TxRemove("fg")

SpecLaunch == Init /\ [][NextLaunch]_vars

\* the transport drops the i-th message queued for the client end of x (the
\* lossy channel of the handshake's loss tolerance); at most NumPings - 1
\* messages are dropped on one connection
Lose(x, i) ==
    /\ i \in 1..Len(toClient[x])
    /\ nLost[x] < NumPings - 1
    /\ nLost' = [nLost EXCEPT ![x] = @ + 1]
    /\ toClient' = [toClient EXCEPT ![x] =
                      SubSeq(@, 1, i - 1) \o SubSeq(@, i + 1, Len(@))]
    /\ UNCHANGED <<clientVars, clientEnd, serverEnd, toServer, nEnv, peerGot,
                   serverVars, nTransmit, raised>>

\* the server and NumClients clients that connect once and stay, with
\* handlers that return
SystemClient(c) ==
    \/ ConnectCheck(c)
    \/ ConnectStart(c)
    \/ DialOk(c, 1)
    \/ DialFail(c, 1)
    \/ StartRecv(c, 1)
    \/ SetConnected(c, 1)
    \/ RecvCheck(c, 1)
    \/ RecvCall(c, 1)
    \/ RecvMsg(c, 1)
    \/ RecvVerify(c, 1)
    \/ RecvHandler(c, 1)

SystemServer ==
    \/ Launch
    \/ AcceptOne
    \/ AcceptDone
    \/ ListenPing
    \/ TxNextListen
    \/ TxSendOk("listen")
    \/ ListenWhile
    \/ ListenWait
    \/ ListenNext
    \/ ListenRecvMsg
    \/ ListenVerify
    \/ ListenHandler

NextSystem ==
    \/ \E c \in Clients : SystemClient(c)
    \/ SystemServer

SpecSystem == Init /\ [][NextSystem]_vars

\* transmit() on both endpoints at any moment: the server's foreground and
\* accept thread, and one client whose first dial is the one that returns
NextTransmit ==
    \/ SystemClient(1)
    \/ RecvRaise(1, 1)
    \/ DisconnectSet(1)
    \/ DisconnectClose(1)
    \/ \E m \in {Switch} : ClientTransmit(1, m)
    \/ Launch
    \/ AcceptOne
    \/ \E m \in {Switch} : ServerTransmit(m)
    \/ TxNextFg
    \/ TxSendOk("fg") \/ TxSendRaise("fg") \/ TxRemove("fg")
    \/ TxReturnFg

SpecTransmit == Init /\ [][NextTransmit]_vars

\* the threads of that system: what the scheduler runs without being asked
SystemThreads ==
    \/ AcceptOne
    \/ AcceptDone
    \/ ListenPing
    \/ TxNextListen
    \/ TxSendOk("listen")
    \/ ListenWhile
    \/ ListenWait
    \/ ListenNext
    \/ ListenRecvMsg
    \/ ListenVerify
    \/ ListenHandler
    \/ \E c \in Clients :
          \/ DialOk(c, 1)
          \/ DialFail(c, 1)
          \/ StartRecv(c, 1)
          \/ SetConnected(c, 1)
          \/ RecvCheck(c, 1)
          \/ RecvCall(c, 1)
          \/ RecvMsg(c, 1)
          \/ RecvVerify(c, 1)
          \/ RecvHandler(c, 1)

\* the handshake on a transport that loses messages sent to the client: the
\* server, one IPCClient c and, in the place of the other peer, a process
\* that connects and stays silent
NextLossy ==
    \/ Launch
    \/ SystemThreads
    \/ \E c \in Clients :
          /\ \A d \in Clients \ {c} : nConnect[d] = 0 /\ fgPc[d] = "idle"
          /\ clientEnd[<<c, 0>>] = "none"
          /\ ConnectCheck(c) \/ ConnectStart(c)
    \/ \E c \in Clients :
          /\ nConnect[c] = 0 /\ fgPc[c] = "idle"
          /\ \E d \in Clients \ {c} : nConnect[d] > 0
          /\ PeerDial(c)
    \/ \E c \in Clients : \E i \in 1..NumPings : Lose(<<c, 1>>, i)

SpecLossy == Init /\ [][NextLossy]_vars

\* every thread that can run is run in the end
FairLossy == SpecLossy /\ WF_vars(SystemThreads)

\* a broadcast while the last step of the accept thread (starting the
\* receive thread) is still to come: the server's foreground, its accept
\* thread and the clients
NextBroadcast ==
    \/ \E c \in Clients : SystemClient(c)
    \/ Launch
    \/ AcceptOne
    \/ \E m \in {Switch} : ServerTransmit(m)
    \/ TxNextFg
    \/ TxSendOk("fg")
    \/ TxReturnFg

SpecBroadcast == Init /\ [][NextBroadcast]_vars

\* the verification step of the server on what peers send it
NextVerify ==
    \/ Launch
    \/ AcceptOne
    \/ AcceptDone
    \/ ListenPing
    \/ TxNextListen
    \/ TxSendOk("listen")
    \/ ListenWhile
    \/ ListenWait
    \/ ListenNext
    \/ ListenRecvMsg
    \/ ListenVerify
    \/ ListenHandler
    \/ \E c \in Clients : PeerDial(c)
    \/ \E c \in Clients : \E m \in PeerMsgs(c) : PeerSendUpTo(c, m, MaxAcks)

SpecVerify == Init /\ [][NextVerify]_vars

(***************************************************************************)
(* Claims                                                                  *)
(***************************************************************************)
Kept(f) == SelectSeq(f.first, LAMBDA x : x \notin f.failed)

\* C1: when a transmit() call returns during which no other thread changed
\* self.clients, a send was attempted on every connection the list held
\* when the call began, in list order, and the list is the initial list
\* without the connections whose send raised.
C1_BroadcastReachesAll ==
    \A t \in {"fg", "listen"} :
        tx[t].pc = "returned" /\ tx[t].alone
            => tx[t].tried = tx[t].first /\ clients = Kept(tx[t])

\* C3: when the EOFError handler of the receive thread acts on a
\* connection, under any interleaving with transmit() calls, it removes
\* that connection: the list shrinks by exactly that connection and the
\* receive loop goes on.
C3_EofRemovesOnce ==
    [][listenPc = "eof_remove" /\ listenPc' # "eof_remove"
          => /\ curConn \in Range(clients)
             /\ clients' = RemoveFirst(clients, curConn)
             /\ Len(clients') = Len(clients) - 1
             /\ listenPc' = "serve"]_vars

\* C4: the receive thread has stopped only if self.clients is empty; an
\* error of recv(), of the verification step or of the handler that is not
\* an end of stream does not end it.
C4_StopsOnlyWhenEmpty ==
    listenPc \in {"done", "crashed_recv", "crashed_verify", "crashed_handler"}
        => clients = <<>>

\* C5: no public operation (connect, transmit, disconnect, launch,
\* terminate) has raised an exception to its caller.
C5_NothingRaised == raised = {}

\* C2: once the server has processed the NumPings acknowledgments of each
\* of its NumClients clients (every probe and every acknowledgment was
\* delivered), verified_client_ids holds exactly the identities of the
\* clients, each once, in whatever order the acknowledgments arrived.
AcksProcessed(c) ==
    /\ Len(handled[<<c, 1>>]) = NumPings
    /\ \A i \in 1..NumPings : handled[<<c, 1>>][i] = Pong(AgentId(c))

C2_AllVerified ==
    (\A c \in Clients : AcksProcessed(c))
        => /\ Range(verified_client_ids) = {AgentId(c) : c \in Clients}
           /\ Len(verified_client_ids) = NumClients

\* the handshake is over: all acknowledgments are processed, and the one
\* of the client accepted second was the first to be verified
C2_HandshakeOver ==
    /\ \A c \in Clients : AcksProcessed(c)
    /\ Len(clients) = NumClients
    /\ verified_client_ids # <<>>
    /\ verified_client_ids[1] = AgentId(clients[NumClients][1])

\* C6: with no disconnect call, a message that transmit() broadcasts to a
\* connection set holding both clients is never left queued for a client
\* whose receive loop has ended: it is handed to the handler of both
\* clients in the end.
C6_BroadcastDelivered ==
    /\ tx["fg"].pc # "idle"
    /\ Len(tx["fg"].first) = NumClients
    /\ \A c \in Clients : nDisconnect[c] = 0
    => \A c \in Clients :
           Switch \in Range(toClient[<<c, 1>>]) => recvPc[c][1] # "exited"

\* C7: a client that received one probe (though the transport lost up to
\* NumPings - 1 of those sent to it) gets its identity into
\* verified_client_ids in the end.
C7_LossTolerant ==
    \A c \in Clients :
        (recvPc[c][1] = "verify" /\ recvMsg[c][1] = Ping(ServerId))
            ~> (AgentId(c) \in Range(verified_client_ids))

\* all probes but one were lost on the way to a client, and it is verified
C7_VerifiedOnOneProbe ==
    \E c \in Clients :
        /\ nLost[<<c, 1>>] = NumPings - 1
        /\ AgentId(c) \in Range(verified_client_ids)

\* C8: verified_client_ids never holds an identity twice, and it changes
\* only when the verification step processes an acknowledgment whose
\* identity is not recorded yet, by appending that identity: a repeated
\* acknowledgment and any other message leave it unchanged.
IsAck(m) == "message" \in DOMAIN m /\ m.message = "pong"

C8_NoIdentityTwice ==
    [][/\ NoDup(verified_client_ids')
       /\ \/ verified_client_ids' = verified_client_ids
          \/ /\ listenPc = "verify"
             /\ IsAck(curMsg)
             /\ curMsg.my_id \notin Range(verified_client_ids)
             /\ verified_client_ids' = Append(verified_client_ids, curMsg.my_id)]_vars

\* the same peer's acknowledgment was processed twice
C8_RepeatedAck ==
    \E c \in Clients :
        /\ handled[<<c, 0>>] = <<Pong(AgentId(c)), Pong(AgentId(c))>>
        /\ verified_client_ids = <<AgentId(c)>>

\* C9: the status of a client never goes from DISCONNECTED directly to
\* CONNECTED.
C9_ConnectedOnlyFromConnecting ==
    [][\A c \in Clients :
          status[c] = "DISCONNECTED" => status'[c] # "CONNECTED"]_vars

\* C10: a receive thread that was running when disconnect() was called
\* begins at most one further receive before it leaves its loop.
C10_OneMoreReceiveAtMost ==
    \A c \in Clients : \A k \in Handles : staleRecvs[c][k] <= 1

\* C11: a connect() call that finds the status CONNECTING or CONNECTED
\* returns without changing the status, the handle or any thread and starts
\* no dial; a dial thread is started only by a connect() call that found
\* the status DISCONNECTED, which sets CONNECTING and starts exactly one.
ClientState(c) == <<status[c], client[c], nConnect[c], dialPc[c], recvPc[c]>>

C11_ConnectOnlyWhenDisconnected ==
    [][\A c \in Clients :
          /\ fgPc[c] = "idle" /\ fgPc'[c] = "connect94"
                => status[c] = "DISCONNECTED"
          /\ fgPc[c] = "idle" /\ fgPc'[c] = "connect90"
                => status[c] \in {"CONNECTING", "CONNECTED"}
                   /\ ClientState(c)' = ClientState(c)
          /\ fgPc[c] = "connect90" /\ fgPc'[c] # "connect90"
                => fgPc'[c] = "idle" /\ ClientState(c)' = ClientState(c)
          /\ nConnect'[c] # nConnect[c]
                => /\ fgPc[c] = "connect94"
                   /\ nConnect'[c] = nConnect[c] + 1
                   /\ status'[c] = "CONNECTING"
                   /\ dialPc[c][nConnect'[c]] = "none"
                   /\ dialPc'[c] = [dialPc[c] EXCEPT ![nConnect'[c]] = "dial"]
          /\ \A k \in Handles :
                dialPc[c][k] = "none" /\ dialPc'[c][k] # "none"
                    => nConnect'[c] = k /\ nConnect[c] = k - 1]_vars

\* a connect() call on a connected client is being rejected
C11_RejectedWhileConnected ==
    \E c \in Clients :
        /\ fgPc[c] = "connect90"
        /\ status[c] = "CONNECTED"
        /\ nConnect[c] = 1

\* C12: the status is never FAILED; a dial that fails leaves the status,
\* the handle and the threads as they are; and as long as disconnect() was
\* not called after a failed first dial, the status is CONNECTING, no
\* handle is stored, no receive thread exists and no connect() call gets
\* past its status test, so that no second dial is made.
C12_FailedDialStaysConnecting ==
    [][\A c \in Clients :
          /\ status'[c] # "FAILED"
          /\ \A k \in Handles :
                dialPc[c][k] = "dial" /\ dialPc'[c][k] = "failed"
                    => /\ status'[c] = status[c]
                       /\ client'[c] = client[c]
                       /\ recvPc'[c] = recvPc[c]
                       /\ nConnect'[c] = nConnect[c]
          /\ dialPc'[c][1] = "failed" /\ nDisconnect'[c] = 0
                => /\ status'[c] = "CONNECTING"
                   /\ client'[c] = 0
                   /\ \A k \in Handles : recvPc'[c][k] = "none"
                   /\ nConnect'[c] = 1
                   /\ fgPc'[c] # "connect94"]_vars

\* the dial failed and a further connect() is being rejected
C12_RejectedAfterFailedDial ==
    \E c \in Clients :
        /\ dialPc[c][1] = "failed"
        /\ nDisconnect[c] = 0
        /\ fgPc[c] = "connect90"

\* C13: a client transmit() with no handle stored, or whose send fails on
\* a closed handle, changes nothing and raises nothing (status and handle
\* included); a server transmit() that runs on an empty self.clients
\* returns without a send, without a change and without raising.
AllButCalls == <<clientVars, netVars, listener, backlog, clients,
                 verified_client_ids, acceptPc, acceptI, listenPc, pingRound,
                 waitSet, readyList, curConn, curMsg, handled, raised>>

C13_TransmitWithoutConnection ==
    [][/\ \A c \in Clients :
             nTransmit'[c] # nTransmit[c]
                 => /\ raised' = raised
                    /\ status' = status
                    /\ client' = client
                    /\ client[c] = 0 \/ clientEnd[<<c, client[c]>>] # "open"
                          => AllButCalls' = AllButCalls
       /\ /\ tx["fg"].pc = "next"
          /\ tx["fg"].first = <<>>
          /\ tx["fg"].alone
          /\ tx'["fg"].pc # "next"
          => /\ tx'["fg"].pc = "returned"
             /\ tx'["fg"].tried = <<>>
             /\ AllButCalls' = AllButCalls]_vars

\* both endpoints have called transmit() with no connection
C13_BothTransmittedNowhere ==
    /\ nTransmit[1] = 1
    /\ client[1] = 0
    /\ tx["fg"].pc = "returned"
    /\ tx["fg"].first = <<>>
    /\ tx["fg"].alone

\* C14: terminate() closes the listener and nothing else: the step leaves
\* self.clients, self.verified_client_ids, both ends of every connection
\* and the accept and receive threads as they are, and the accept thread
\* never ends before it has accepted NumClients peers.
C14_TerminateClosesListenerOnly ==
    [][/\ listener = "open" /\ listener' # "open"
          => /\ clients' = clients
             /\ verified_client_ids' = verified_client_ids
             /\ clientEnd' = clientEnd
             /\ serverEnd' = serverEnd
             /\ acceptPc' = acceptPc
             /\ listenPc' = listenPc
       /\ acceptPc' # "crashed_accept"]_vars

\* C15: the messages of one connection are handed to the client's handler
\* once each and in the order they were sent on that connection (for a
\* client on which disconnect() was called, if at all, while it was
\* connected and receiving).
C15_InOrderOncePerConnection ==
    \A c \in Clients :
        nDisconnect[c] = 0 \/ stale[c] # {}
            => \A i, j \in 1..Len(delivered[c]) :
                   i < j /\ delivered[c][i].conn = delivered[c][j].conn
                       => delivered[c][i].seq < delivered[c][j].seq

\* C16: with no disconnect() call, a client whose status is CONNECTED has
\* a receive thread inside its loop: the thread the dial started has not
\* exited.
C16_ReceivingWhenConnected ==
    \A c \in Clients :
        nDisconnect[c] = 0 /\ status[c] = "CONNECTED"
            => \E k \in Handles : recvPc[c][k] \notin {"none", "exited"}

\* C17: the receive thread receives only after NumPings probe rounds, and
\* when the probe phase is over every connection that is still in
\* self.clients (its peer alive) has been sent the probe NumPings times.
C17_SixProbesEach ==
    listenPc \in {"while", "wait", "serve", "recv", "verify", "handler",
                  "eof_remove"}
        => /\ pingRound = NumPings
           /\ \A c \in Clients :
                 <<c, 0>> \in Range(clients) /\ clientEnd[<<c, 0>>] = "open"
                     => peerGot[c][Ping(ServerId)] = NumPings

\* C18: self.clients never holds a connection twice nor more than
\* NumClients connections; it grows only by the accept thread appending
\* the connection that arrived first, at most NumClients times; the
\* receive thread is started only when the list holds all NumClients
\* connections, and from then on nothing is added.
C18_ReceiveStartsOnFullSet ==
    [][/\ NoDup(clients')
       /\ Len(clients') <= NumClients
       /\ acceptI' <= NumClients
       /\ Len(clients') > Len(clients)
             => /\ backlog # <<>>
                /\ clients' = Append(clients, Head(backlog))
                /\ acceptI' = acceptI + 1
                /\ listenPc = "none"
       /\ listenPc = "none" /\ listenPc' # "none"
             => acceptI = NumClients /\ Len(clients) = NumClients]_vars

\* C19: a client never has two receive threads in its receive loop that
\* are blocked in recv() on the same handle (with disconnect() called, if
\* at all, on the connected and receiving client): the thread of the old
\* connection is not running alongside the thread of the new one.
C19_OneReceiveThread ==
    \A c \in Clients :
        nDisconnect[c] = 0 \/ stale[c] # {}
            => \A k1, k2 \in Handles :
                   /\ recvPc[c][k1] = "blocked"
                   /\ recvPc[c][k2] = "blocked"
                   /\ recvH[c][k1] = recvH[c][k2]
                   => k1 = k2

====
